---- MODULE Spec2Model ----
(***************************************************************************)
(* Model of calib.py: a registry of cell states with ordered rewrite       *)
(* rules, Moore / von Neumann neighborhood extraction with a border        *)
(* sentinel, dense pattern construction from sparse offset maps, wildcard  *)
(* pattern matching, and the whole-grid step.                              *)
(*                                                                         *)
(* Python lists and tuples are TLA+ sequences: Python index i is TLA+      *)
(* index i + 1.  Coordinates x, y and offsets keep the 0-based values the  *)
(* code uses.  A dict is a function whose DOMAIN is the dict's key set.    *)
(***************************************************************************)
EXTENDS Integers, Sequences, FiniteSets, TLC

VARIABLES CELL_STATE_REGISTRY, grid, history, args, ret

vars == <<CELL_STATE_REGISTRY, grid, history, args, ret>>

\* ------------------ bounds ------------------

MaxH == 2
MaxCells == 4
MaxRules == 2
MaxDim == 3
MaxPatLen == 5
MaxParts == 3
MaxSandDim == 4
MaxSandH == 3

\* ------------------ module-level values ------------------

BORDER_VALUE == "border"
EMPTY_VALUE == "empty"
WILDCARD == "*"

\* The value a failed list index produces in the model (Python raises
\* IndexError there).
IndexError == "IndexError"

\* The value a failed dict lookup produces in the model (Python raises
\* KeyError there).
KeyError == "KeyError"

\* ------------------ Python list indexing ------------------

\* Whether seq[i] is defined for a Python list: 0-based, and a negative index
\* counts from the end; anything outside -len .. len-1 raises IndexError.
PyInRange(seq, i) == i >= 0 - Len(seq) /\ i < Len(seq)

\* seq[i] for a Python list, for an index that is in range.
PyIndex(seq, i) == IF i >= 0 THEN seq[i + 1] ELSE seq[Len(seq) + i + 1]

\* ------------------ NEIGHBORHOOD FUNCTIONS ------------------

\* MooreReads with the rows above and below exchanged (y taken to grow
\* upwards in the grid as it does in the offsets).
MooreReadsRowsExchanged(arr, x, y) ==
    LET w == Len(PyIndex(arr, y)) IN
    << [cond |-> TRUE,                           r |-> y,     c |-> x],
       [cond |-> y < Len(arr) - 1,               r |-> y + 1, c |-> x],
       [cond |-> y < Len(arr) - 1 /\ x < w - 1,  r |-> y + 1, c |-> x + 1],
       [cond |-> x < w - 1,                      r |-> y,     c |-> x + 1],
       [cond |-> y > 0 /\ x < w - 1,             r |-> y - 1, c |-> x + 1],
       [cond |-> y > 0,                          r |-> y - 1, c |-> x],
       [cond |-> y > 0 /\ x > 0,                 r |-> y - 1, c |-> x - 1],
       [cond |-> x > 0,                          r |-> y,     c |-> x - 1],
       [cond |-> y < Len(arr) - 1 /\ x > 0,      r |-> y + 1, c |-> x - 1] >>

\* The nine conditional reads of _get_moore_neighborhood, in tuple order:
\* cond is the guard of the conditional expression (TRUE for the
\* unconditional arr[y][x]), r and c the row and column subscripts.
MooreReads(arr, x, y) ==
    LET w == Len(PyIndex(arr, y)) IN
    << [cond |-> TRUE,                           r |-> y,     c |-> x],
       [cond |-> y > 0,                          r |-> y - 1, c |-> x],
       [cond |-> y > 0 /\ x < w - 1,             r |-> y - 1, c |-> x + 1],
       [cond |-> x < w - 1,                      r |-> y,     c |-> x + 1],
       [cond |-> y < Len(arr) - 1 /\ x < w - 1,  r |-> y + 1, c |-> x + 1],
       [cond |-> y < Len(arr) - 1,               r |-> y + 1, c |-> x],
       [cond |-> y < Len(arr) - 1 /\ x > 0,      r |-> y + 1, c |-> x - 1],
       [cond |-> x > 0,                          r |-> y,     c |-> x - 1],
       [cond |-> y > 0 /\ x > 0,                 r |-> y - 1, c |-> x - 1] >>

\* VonNeumannReads with the guard of the row above off by one (y >= 0).
VonNeumannReadsGuardOffByOne(arr, x, y) ==
    LET w == Len(PyIndex(arr, y)) IN
    << [cond |-> TRUE,               r |-> y,     c |-> x],
       [cond |-> y >= 0,             r |-> y - 1, c |-> x],
       [cond |-> x < w - 1,          r |-> y,     c |-> x + 1],
       [cond |-> y < Len(arr) - 1,   r |-> y + 1, c |-> x],
       [cond |-> x > 0,              r |-> y,     c |-> x - 1] >>

\* The five conditional reads of _get_von_neuman_neighborhood.
VonNeumannReads(arr, x, y) ==
    LET w == Len(PyIndex(arr, y)) IN
    << [cond |-> TRUE,               r |-> y,     c |-> x],
       [cond |-> y > 0,              r |-> y - 1, c |-> x],
       [cond |-> x < w - 1,          r |-> y,     c |-> x + 1],
       [cond |-> y < Len(arr) - 1,   r |-> y + 1, c |-> x],
       [cond |-> x > 0,              r |-> y,     c |-> x - 1] >>

\* Whether evaluating one element of the tuple raises IndexError.
ReadRaises(arr, rd) ==
    rd.cond /\ (~PyInRange(arr, rd.r) \/ ~PyInRange(PyIndex(arr, rd.r), rd.c))

\* One element of the tuple: `arr[r][c] if cond else BORDER_VALUE`.
ReadOrBorder(arr, rd) ==
    IF rd.cond THEN PyIndex(PyIndex(arr, rd.r), rd.c) ELSE BORDER_VALUE

\* Whether building the tuple raises IndexError.
NeighborhoodRaises(arr, reads) == \E i \in 1..Len(reads) : ReadRaises(arr, reads[i])

\* The tuple built from a list of conditional reads; the model's value of a
\* call that raises is the string IndexError.
NeighborhoodOf(arr, reads) ==
    IF NeighborhoodRaises(arr, reads) THEN IndexError
    ELSE [i \in 1..Len(reads) |-> ReadOrBorder(arr, reads[i])]

_get_moore_neighborhood(arr, x, y) == NeighborhoodOf(arr, MooreReads(arr, x, y))

_get_von_neuman_neighborhood(arr, x, y) == NeighborhoodOf(arr, VonNeumannReads(arr, x, y))

\* The keys of the NEIGHBORHOODS dict.
NEIGHBORHOOD_TYPES == {"moore", "von_neumann"}

\* How NEIGHBORHOODS[neighborhood_type](arr, x, y) ends: the dict lookup
\* raises KeyError for a type that is not a key, the function called may
\* raise IndexError, else "none".
NeighborhoodsRaised(neighborhood_type, arr, x, y) ==
    IF neighborhood_type \notin NEIGHBORHOOD_TYPES THEN KeyError
    ELSE IF NeighborhoodRaises(arr, IF neighborhood_type = "moore"
                                    THEN MooreReads(arr, x, y)
                                    ELSE VonNeumannReads(arr, x, y))
    THEN IndexError
    ELSE "none"

\* NEIGHBORHOODS[neighborhood_type](arr, x, y); the model's value of a lookup
\* that raises is the string KeyError.
NEIGHBORHOODS(neighborhood_type, arr, x, y) ==
    IF neighborhood_type \notin NEIGHBORHOOD_TYPES THEN KeyError
    ELSE IF neighborhood_type = "moore" THEN _get_moore_neighborhood(arr, x, y)
    ELSE _get_von_neuman_neighborhood(arr, x, y)

\* An empty kwargs dict.
EmptyDictOfKwargs == [k \in {} |-> 0]

\* ------------------ DEFINITIONS ------------------

\* The dataclass Pattern.
Pattern(pattern, neighborhood_type) ==
    [pattern |-> pattern, neighborhood_type |-> neighborhood_type]

\* The dataclass Cell.
Cell(name, rules, data) == [name |-> name, rules |-> rules, data |-> data]

\* ------------------ UTILS ------------------

\* positions with the von Neumann offsets listed east before north.
positionsEastFirst(neighborhood_type) ==
    IF neighborhood_type = "moore"
    THEN << <<0, 0>>, <<0, 1>>, <<1, 1>>, <<1, 0>>, <<1, -1>>,
            <<0, -1>>, <<-1, -1>>, <<-1, 0>>, <<-1, 1>> >>
    ELSE IF neighborhood_type = "von_neumann"
    THEN << <<0, 0>>, <<1, 0>>, <<0, 1>>, <<-1, 0>>, <<0, -1>> >>
    ELSE << >>

\* The offset list cell_pattern_create selects for a neighborhood type
\* (<<>> for a type that reaches `case _`).
positions(neighborhood_type) ==
    IF neighborhood_type = "moore"
    THEN << <<0, 0>>, <<0, 1>>, <<1, 1>>, <<1, 0>>, <<1, -1>>,
            <<0, -1>>, <<-1, -1>>, <<-1, 0>>, <<-1, 1>> >>
    ELSE IF neighborhood_type = "von_neumann"
    THEN << <<0, 0>>, <<0, 1>>, <<1, 0>>, <<0, -1>>, <<-1, 0>> >>
    ELSE << >>

\* list.index(v) as a TLA+ index: the first position holding v.
ListIndex(list, v) ==
    CHOOSE i \in 1..Len(list) : list[i] = v /\ \A j \in 1..(i - 1) : list[j] # v

\* `v in list`
ListContains(list, v) == \E i \in 1..Len(list) : list[i] = v

\* new_pattern after the loop over rule_parts.items(): slot `index` holds
\* state_id for every offset of rule_parts found in the position list, the
\* other slots keep the "*" they were created with.  rule_parts is a dict, so
\* no two items write the same slot and the iteration order is immaterial.
FillPattern(rule_parts, pos) ==
    [index \in 1..Len(pos) |->
        IF \E offset \in DOMAIN rule_parts :
               ListContains(pos, offset) /\ ListIndex(pos, offset) = index
        THEN rule_parts[CHOOSE offset \in DOMAIN rule_parts :
                            ListContains(pos, offset) /\ ListIndex(pos, offset) = index]
        ELSE WILDCARD]

\* cell_pattern_create without the check for the (0, 0) key.
cell_pattern_create_unchecked_self(rule_parts, neighborhood_type) ==
    IF neighborhood_type \notin {"moore", "von_neumann"}
    THEN [raised |-> "ValueError", msg |-> "Invalid neighborhood type"]
    ELSE [raised |-> "none",
          value |-> Pattern(FillPattern(rule_parts, positions(neighborhood_type)),
                            neighborhood_type)]

\* cell_pattern_create: raised is "ValueError" with the message of the raise
\* statement, or "none" with the Pattern returned.
cell_pattern_create(rule_parts, neighborhood_type) ==
    IF <<0, 0>> \notin DOMAIN rule_parts
    THEN [raised |-> "ValueError", msg |-> "Rule must contain (0, 0) offset (self)"]
    ELSE IF neighborhood_type \notin {"moore", "von_neumann"}
    THEN [raised |-> "ValueError", msg |-> "Invalid neighborhood type"]
    ELSE [raised |-> "none",
          value |-> Pattern(FillPattern(rule_parts, positions(neighborhood_type)),
                            neighborhood_type)]

\* ------------------ CELL STATE FUNCTIONS ------------------

\* MatchFrom with `return True` in place of `continue` at a wildcard.
RECURSIVE MatchFromWildcardReturns(_, _, _)
MatchFromWildcardReturns(_pattern, neighborhood, i) ==
    IF i > Len(_pattern) THEN TRUE
    ELSE IF i > Len(neighborhood) THEN IndexError
    ELSE IF _pattern[i] = "*" THEN TRUE
    ELSE IF _pattern[i] # neighborhood[i] THEN FALSE
    ELSE MatchFromWildcardReturns(_pattern, neighborhood, i + 1)

\* The loop of _cell_pattern_match, from TLA+ index i on.  Each iteration
\* reads _pattern[i] and neighborhood[i] before it looks at the token, so a
\* neighborhood that ends before the pattern raises IndexError when the loop
\* gets there, also under a wildcard; the model's value of a call that
\* raises is the string IndexError.
RECURSIVE MatchFrom(_, _, _)
MatchFrom(_pattern, neighborhood, i) ==
    IF i > Len(_pattern) THEN TRUE
    ELSE IF i > Len(neighborhood) THEN IndexError
    ELSE IF _pattern[i] = "*" THEN MatchFrom(_pattern, neighborhood, i + 1)
    ELSE IF _pattern[i] # neighborhood[i] THEN FALSE
    ELSE MatchFrom(_pattern, neighborhood, i + 1)

\* Whether _cell_pattern_match raises IndexError: the neighborhood is shorter
\* than the pattern and no token before its end made the loop return False.
MatchRaises(pattern, neighborhood) ==
    /\ Len(pattern.pattern) > Len(neighborhood)
    /\ \A i \in 1..Len(neighborhood) :
           pattern.pattern[i] = "*" \/ pattern.pattern[i] = neighborhood[i]

_cell_pattern_match(pattern, neighborhood) ==
    MatchFrom(pattern.pattern, neighborhood, 1)

\* RegistryRegister keeping the rule list of a name that is already
\* registered (only the metadata is replaced).
RegistryRegisterKeepingRules(reg, name, kwargs) ==
    [n \in DOMAIN reg \cup {name} |->
        IF n = name
        THEN Cell(name, IF name \in DOMAIN reg THEN reg[name].rules ELSE << >>, kwargs)
        ELSE reg[n]]

\* The registry after cell_state_register(name, **kwargs) on registry reg.
RegistryRegister(reg, name, kwargs) ==
    [n \in DOMAIN reg \cup {name} |->
        IF n = name THEN Cell(name, << >>, kwargs) ELSE reg[n]]

\* Whether cell_state_add_new_rule raises KeyError on registry reg.
AddRuleRaises(reg, matching_pattern) ==
    matching_pattern.pattern[1] \notin DOMAIN reg

\* RulesAppend with rules.insert(0, ...) in place of rules.append(...).
RulesInsertFirst(rules, matching_pattern, resulting_new_state) ==
    << <<matching_pattern, resulting_new_state>> >> \o rules

\* The rule list after rules.append((matching_pattern, resulting_new_state)).
RulesAppend(rules, matching_pattern, resulting_new_state) ==
    Append(rules, <<matching_pattern, resulting_new_state>>)

\* RegistryAddRule with a lookup that creates the missing state
\* (setdefault) in place of CELL_STATE_REGISTRY[name].
RegistryAddRuleCreating(reg, matching_pattern, resulting_new_state) ==
    LET name == matching_pattern.pattern[1] IN
    [n \in DOMAIN reg \cup {name} |->
        IF n # name THEN reg[n]
        ELSE Cell(name,
                  RulesAppend(IF name \in DOMAIN reg THEN reg[name].rules ELSE << >>,
                              matching_pattern, resulting_new_state),
                  IF name \in DOMAIN reg THEN reg[name].data ELSE EmptyDictOfKwargs)]

\* RegistryAddRule with name = resulting_new_state in place of
\* matching_pattern.pattern[0]: the rule goes to the list of its result state.
RegistryAddRuleToResultState(reg, matching_pattern, resulting_new_state) ==
    LET name == resulting_new_state IN
    IF AddRuleRaises(reg, matching_pattern) \/ name \notin DOMAIN reg THEN reg
    ELSE [reg EXCEPT ![name].rules =
              RulesAppend(reg[name].rules, matching_pattern, resulting_new_state)]

\* The registry after cell_state_add_new_rule on registry reg (unchanged when
\* the lookup of the owning state raises).
RegistryAddRule(reg, matching_pattern, resulting_new_state) ==
    LET name == matching_pattern.pattern[1] IN
    IF AddRuleRaises(reg, matching_pattern) THEN reg
    ELSE [reg EXCEPT ![name].rules =
              RulesAppend(reg[name].rules, matching_pattern, resulting_new_state)]

\* ------------------ GRID FUNCTIONS ------------------

\* The cells the two enumerate loops visit from row y (0-based) on, up to but
\* not including row `stop`: each row left to right over its own length, as
\* pairs <<x, y>>.
RECURSIVE RowMajorFrom(_, _, _)
RowMajorFrom(g, y, stop) ==
    IF y >= stop THEN << >>
    ELSE [x \in 1..Len(g[y + 1]) |-> <<x - 1, y>>] \o RowMajorFrom(g, y + 1, stop)

\* RowMajor with the outer loop one row short (range(len(grid) - 1)): the
\* cells of the last row are never visited.
RowMajorWithoutLastRow(g) == RowMajorFrom(g, 0, Len(g) - 1)

\* The cells of a grid in the order of the two enumerate loops: rows top to
\* bottom, each row left to right, as pairs <<x, y>>.  A row is visited over
\* its own length, whatever the length of row 0.
RowMajor(g) == RowMajorFrom(g, 0, Len(g))

\* RuleLoop without the `break`: the last matching rule wins.
RECURSIVE RuleLoopNoBreak(_, _, _, _, _, _)
RuleLoopNoBreak(arr, x, y, rules, i, cell_state_name) ==
    IF i > Len(rules) THEN [raised |-> "none", value |-> cell_state_name]
    ELSE IF _cell_pattern_match(rules[i][1],
                NEIGHBORHOODS(rules[i][1].neighborhood_type, arr, x, y))
         THEN LET later == {j \in (i + 1)..Len(rules) :
                               _cell_pattern_match(rules[j][1],
                                   NEIGHBORHOODS(rules[j][1].neighborhood_type, arr, x, y))}
              IN IF later = {} THEN [raised |-> "none", value |-> rules[i][2]]
                 ELSE RuleLoopNoBreak(arr, x, y, rules, i + 1, cell_state_name)
         ELSE RuleLoopNoBreak(arr, x, y, rules, i + 1, cell_state_name)

\* RuleLoop without the for-else branch: a cell no rule matches keeps the
\* EMPTY_VALUE new_grid was filled with.
RECURSIVE RuleLoopNoElse(_, _, _, _, _, _)
RuleLoopNoElse(arr, x, y, rules, i, cell_state_name) ==
    IF i > Len(rules) THEN [raised |-> "none", value |-> EMPTY_VALUE]
    ELSE IF _cell_pattern_match(rules[i][1],
                NEIGHBORHOODS(rules[i][1].neighborhood_type, arr, x, y))
         THEN [raised |-> "none", value |-> rules[i][2]]
         ELSE RuleLoopNoElse(arr, x, y, rules, i + 1, cell_state_name)

\* The rule loop of grid_step for the cell (x, y) of arr, from rule i on.
\* value is what is assigned to new_grid[y][x]: the result of the first
\* matching rule (then `break`) or, in the for-else branch, cell_state_name.
\* The loop ends with raised # "none", and no assignment, when the lookup
\* NEIGHBORHOODS[neighborhood_type] raises KeyError or the neighborhood
\* function or _cell_pattern_match raises IndexError for a rule it reaches.
\* (The neighborhood is bound as the element of a singleton, so that the
\* tuple is built once per rule, as in the code.)
RECURSIVE RuleLoop(_, _, _, _, _, _)
RuleLoop(arr, x, y, rules, i, cell_state_name) ==
    IF i > Len(rules) THEN [raised |-> "none", value |-> cell_state_name]
    ELSE LET pattern == rules[i][1]
             cell_new_state_name == rules[i][2]
             neighborhood_type == pattern.neighborhood_type
         IN IF NeighborhoodsRaised(neighborhood_type, arr, x, y) # "none"
            THEN [raised |-> NeighborhoodsRaised(neighborhood_type, arr, x, y)]
            ELSE CHOOSE out \in
                     { IF MatchRaises(pattern, neighborhood)
                       THEN [raised |-> IndexError]
                       ELSE IF _cell_pattern_match(pattern, neighborhood)
                       THEN [raised |-> "none", value |-> cell_new_state_name]
                       ELSE RuleLoop(arr, x, y, rules, i + 1, cell_state_name) :
                       neighborhood \in {NEIGHBORHOODS(neighborhood_type, arr, x, y)} } : TRUE

\* NewGrid with `new_grid = grid` in place of the comprehension: both names
\* are bound to the argument object.
NewGridAliased(g) ==
    [objs     |-> << g >>,
     grid     |-> 1,
     new_grid |-> 1,
     raised   |-> "none"]

\* The objects of a running grid_step after the allocation of new_grid: objs
\* is the store of list objects, grid and new_grid the objects the two local
\* names are bound to.  The comprehension builds a fresh list of fresh rows
\* filled with EMPTY_VALUE, so new_grid is an object of its own.
NewGrid(g) ==
    [objs     |-> << g, [r \in 1..Len(g) |-> [c \in 1..Len(g[1]) |-> EMPTY_VALUE]] >>,
     grid     |-> 1,
     new_grid |-> 2,
     raised   |-> "none"]

\* Whether the assignment new_grid[y][x] = ... raises IndexError.
AssignRaises(new_grid, x, y) ==
    ~PyInRange(new_grid, y) \/ ~PyInRange(PyIndex(new_grid, y), x)

\* StepCell updating in place: the new state is also stored into grid[y][x],
\* so cells visited later read it.
StepCellInPlace(reg, st, x, y) ==
    LET arr == st.objs[st.grid]
        cell_state_name == arr[y + 1][x + 1]
    IN IF st.raised # "none" THEN st
       ELSE IF cell_state_name \notin DOMAIN reg THEN [st EXCEPT !.raised = KeyError]
       ELSE LET out == RuleLoop(arr, x, y, reg[cell_state_name].rules, 1, cell_state_name)
            IN IF out.raised # "none" THEN [st EXCEPT !.raised = out.raised]
               ELSE [st EXCEPT !.objs =
                         [o \in DOMAIN st.objs |->
                             [st.objs[o] EXCEPT ![y + 1][x + 1] = out.value]]]

\* StepCell with a lookup that treats an unregistered name as a state without
\* rules (CELL_STATE_REGISTRY.get) in place of raising.
StepCellToleratingUnknown(reg, st, x, y) ==
    LET arr == st.objs[st.grid]
        cell_state_name == arr[y + 1][x + 1]
    IN IF st.raised # "none" THEN st
       ELSE IF cell_state_name \notin DOMAIN reg
       THEN [st EXCEPT !.objs[st.new_grid][y + 1][x + 1] = cell_state_name]
       ELSE LET out == RuleLoop(arr, x, y, reg[cell_state_name].rules, 1, cell_state_name)
            IN IF out.raised # "none" THEN [st EXCEPT !.raised = out.raised]
               ELSE [st EXCEPT !.objs[st.new_grid][y + 1][x + 1] = out.value]

\* One iteration of the inner loop, for the cell (x, y): the lookup
\* CELL_STATE_REGISTRY[cell_state_name] raises KeyError for an unregistered
\* name and the rule loop may raise, else new_grid[y][x] is assigned; the
\* assignment raises IndexError when new_grid, whose rows all have the length
\* of grid[0], has no cell (x, y).  All reads go to the object `grid`.  (The
\* outcome of the rule loop is bound as the element of a singleton, so that
\* the loop runs once.)
StepCell(reg, st, x, y) ==
    LET arr == st.objs[st.grid]
        cell_state_name == arr[y + 1][x + 1]
    IN IF st.raised # "none" THEN st
       ELSE IF cell_state_name \notin DOMAIN reg THEN [st EXCEPT !.raised = KeyError]
       ELSE CHOOSE after \in
                { IF out.raised # "none" THEN [st EXCEPT !.raised = out.raised]
                  ELSE IF AssignRaises(st.objs[st.new_grid], x, y)
                  THEN [st EXCEPT !.raised = IndexError]
                  ELSE [st EXCEPT !.objs[st.new_grid][y + 1][x + 1] = out.value] :
                  out \in {RuleLoop(arr, x, y, reg[cell_state_name].rules, 1,
                                     cell_state_name)} } : TRUE

\* The loop over the cells, visiting them in the given order from index k on.
\* (The cell and the state after it are bound as the elements of singletons,
\* so that each is computed once before the next cell is visited.)
RECURSIVE StepCells(_, _, _, _)
StepCells(reg, st, order, k) ==
    IF k > Len(order) THEN st
    ELSE CHOOSE end \in {StepCells(reg, next, order, k + 1) :
                             next \in {StepCell(reg, st, xy[1], xy[2]) : xy \in {order[k]}}} : TRUE

\* grid_step with registry reg, visiting the cells in the given order: the
\* objects when the call ends (by return or by an exception).
GridStepIn(reg, g, order) == StepCells(reg, NewGrid(g), order, 1)

\* grid_step as the code runs it: row-major.
GridStepRun(reg, g) == GridStepIn(reg, g, RowMajor(g))

\* Whether grid_step(g) raises with registry reg.
GridStepRaises(reg, g) == GridStepRun(reg, g).raised # "none"

\* The grid returned by grid_step(g) with registry reg, when it returns.
GridStep(reg, g) == LET st == GridStepRun(reg, g) IN st.objs[st.new_grid]

\* grid_step(g) with the registry of the current state.
grid_step(g) == GridStep(CELL_STATE_REGISTRY, g)

\* ------------------ inputs ------------------

\* An empty dict.
EmptyDict == [n \in {} |-> 0]

\* The state names the callers register, and a name nobody registers.
Names == {"empty", "sand"}
StateIds == Names \cup {"rock"}

\* The registrations of the callers: the name and the keyword arguments.
Registrations ==
    { [name |-> "empty", kwargs |-> [color |-> "black"]],
      [name |-> "sand", kwargs |-> [color |-> "yellow"]],
      [name |-> "sand", kwargs |-> [color |-> "black"]] }

\* The rectangular grids of width w and height h over the cell values in ids.
GridsOf(w, h, ids) == [1..h -> [1..w -> ids]]

\* The widths of the grids a caller starts from.
Widths == {1, 2}

\* The grids a caller starts from.
Grids == UNION {GridsOf(w, h, Names) : w \in Widths, h \in 1..MaxH}

\* A dict literal {k1: v1, k2: v2} with k1 # k2, and {k1: v1}.
Dict1(k1, v1) == [k \in {k1} |-> v1]
Dict2(k1, v1, k2, v2) == [k \in {k1, k2} |-> IF k = k1 THEN v1 ELSE v2]

\* The add-rule calls of the callers: the arguments of cell_pattern_create and
\* the resulting state.  The first two are the falling-sand rules; the third
\* overlaps the first and results in a name nobody registers; the fourth is a
\* rule for a name nobody registers.
RuleCalls ==
    { [rule_parts |-> Dict2(<<0, 0>>, "sand", <<0, -1>>, "empty"),
       neighborhood_type |-> "moore", resulting_new_state |-> "empty"],
      [rule_parts |-> Dict2(<<0, 0>>, "empty", <<0, 1>>, "sand"),
       neighborhood_type |-> "moore", resulting_new_state |-> "sand"],
      [rule_parts |-> Dict2(<<0, 0>>, "sand", <<1, 0>>, "border"),
       neighborhood_type |-> "von_neumann", resulting_new_state |-> "rock"],
      [rule_parts |-> Dict1(<<0, 0>>, "rock"),
       neighborhood_type |-> "moore", resulting_new_state |-> "empty"] }

\* The number of rules held by the registry.
RECURSIVE SumRules(_, _)
SumRules(reg, names) ==
    IF names = {} THEN 0
    ELSE LET n == CHOOSE m \in names : TRUE
         IN Len(reg[n].rules) + SumRules(reg, names \ {n})

TotalRules(reg) == SumRules(reg, DOMAIN reg)

\* ------------------ the registry and the grid of a caller ------------------

NoCall == [op |-> "none"]
NoResult == [raised |-> "none"]

Init ==
    /\ CELL_STATE_REGISTRY = EmptyDict
    /\ grid \in Grids
    /\ history = [n \in StateIds |-> << >>]
    /\ args = NoCall
    /\ ret = NoResult

\* cell_state_register(name, **kwargs)
cell_state_register(name, kwargs) ==
    /\ CELL_STATE_REGISTRY' = RegistryRegister(CELL_STATE_REGISTRY, name, kwargs)
    /\ history' = [history EXCEPT ![name] = << >>]
    /\ args' = [op |-> "cell_state_register", name |-> name, kwargs |-> kwargs]
    /\ ret' = NoResult
    /\ UNCHANGED grid

\* cell_state_add_new_rule(matching_pattern, resulting_new_state); history
\* records, per state name, the pairs of the calls that returned since the
\* name was last registered.
cell_state_add_new_rule(matching_pattern, resulting_new_state) ==
    /\ TotalRules(CELL_STATE_REGISTRY) < MaxRules
    /\ CELL_STATE_REGISTRY' =
           RegistryAddRule(CELL_STATE_REGISTRY, matching_pattern, resulting_new_state)
    /\ history' =
           IF AddRuleRaises(CELL_STATE_REGISTRY, matching_pattern) THEN history
           ELSE [history EXCEPT ![matching_pattern.pattern[1]] =
                     Append(@, <<matching_pattern, resulting_new_state>>)]
    /\ args' = [op |-> "cell_state_add_new_rule",
                matching_pattern |-> matching_pattern,
                resulting_new_state |-> resulting_new_state]
    /\ ret' = [raised |-> IF AddRuleRaises(CELL_STATE_REGISTRY, matching_pattern)
                          THEN "KeyError" ELSE "none"]
    /\ UNCHANGED grid

\* A caller builds a pattern with cell_pattern_create and adds it as a rule.
AddRuleCall ==
    \E call \in RuleCalls :
        LET made == cell_pattern_create(call.rule_parts, call.neighborhood_type) IN
        /\ made.raised = "none"
        /\ cell_state_add_new_rule(made.value, call.resulting_new_state)

RegisterCall == \E r \in Registrations : cell_state_register(r.name, r.kwargs)

\* What the caller of grid = grid_step(grid) holds in `grid` after the call
\* that ended with the objects st.
CallerGrid(st) == IF st.raised = "none" THEN st.objs[st.new_grid] ELSE st.objs[st.grid]

\* The record of a grid_step call that ended with the objects st.
Outcome(st) == [raised |-> st.raised, run |-> st]

\* grid = grid_step(grid): ret.run holds the objects of the call when it ended.
\* When the call raises, the caller's name stays bound to the argument object.
GridStepCall ==
    /\ args' = [op |-> "grid_step", grid |-> grid]
    /\ ret' = Outcome(GridStepRun(CELL_STATE_REGISTRY, grid))
    /\ grid' = CallerGrid(ret'.run)
    /\ UNCHANGED <<CELL_STATE_REGISTRY, history>>

Next == RegisterCall \/ AddRuleCall \/ GridStepCall

Spec == Init /\ [][Next]_vars

\* ------------------ the neighborhood functions on their own ------------------

\* The w x h grid whose cells all differ: "1", "2", ... in row-major order (the
\* grid of _test_neighborhood_functions is LabelGrid(3, 3)).
LabelGrid(w, h) == [r \in 1..h |-> [c \in 1..w |-> ToString((r - 1) * w + c)]]

\* The grids handed to the neighborhood functions.
NeighborhoodGrids ==
    {LabelGrid(w, h) : w \in 1..MaxDim, h \in 1..MaxDim} \cup Grids

InitNeighborhood ==
    /\ CELL_STATE_REGISTRY = EmptyDict
    /\ grid \in NeighborhoodGrids
    /\ history = [n \in StateIds |-> << >>]
    /\ args = NoCall
    /\ ret = NoResult

\* A call func(grid, x, y) of a neighborhood function on a cell of the grid:
\* ret.reads lists the subscripts <<row, column>> the call evaluated.
NeighborhoodCall(neighborhood_type, reads, value) ==
    /\ args.op = "none"
    /\ \E y \in 0..(Len(grid) - 1), x \in 0..(Len(grid[1]) - 1) :
        /\ args' = [op |-> "neighborhood", neighborhood_type |-> neighborhood_type,
                    x |-> x, y |-> y]
        /\ ret' = [raised |-> IF NeighborhoodRaises(grid, reads[x, y])
                              THEN IndexError ELSE "none",
                   value |-> value[x, y],
                   reads |-> [i \in 1..Len(reads[x, y]) |->
                                 IF reads[x, y][i].cond
                                 THEN << <<reads[x, y][i].r, reads[x, y][i].c>> >>
                                 ELSE << >>]]
    /\ UNCHANGED <<CELL_STATE_REGISTRY, grid, history>>

MooreCall ==
    NeighborhoodCall("moore",
        [x \in 0..(Len(grid[1]) - 1), y \in 0..(Len(grid) - 1) |-> MooreReads(grid, x, y)],
        [x \in 0..(Len(grid[1]) - 1), y \in 0..(Len(grid) - 1) |->
            _get_moore_neighborhood(grid, x, y)])

VonNeumannCall ==
    NeighborhoodCall("von_neumann",
        [x \in 0..(Len(grid[1]) - 1), y \in 0..(Len(grid) - 1) |-> VonNeumannReads(grid, x, y)],
        [x \in 0..(Len(grid[1]) - 1), y \in 0..(Len(grid) - 1) |->
            _get_von_neuman_neighborhood(grid, x, y)])

NextNeighborhood == MooreCall \/ VonNeumannCall

SpecNeighborhood == InitNeighborhood /\ [][NextNeighborhood]_vars

\* ------------------ _cell_pattern_match on its own ------------------

\* The tokens of the patterns and the entries of the neighborhoods tried; the
\* neighborhoods are as long as the pattern or one entry short.
MatchTokens == {WILDCARD, "sand", BORDER_VALUE}
MatchEntries == {"sand", "empty", BORDER_VALUE}

InitMatch ==
    /\ CELL_STATE_REGISTRY = EmptyDict
    /\ grid = << <<EMPTY_VALUE>> >>
    /\ history = [n \in StateIds |-> << >>]
    /\ \E n \in 1..MaxPatLen, m \in 0..MaxPatLen :
         /\ m \in {n - 1, n}
         /\ \E tokens \in [1..n -> MatchTokens], neighborhood \in [1..m -> MatchEntries] :
                args = [op |-> "_cell_pattern_match",
                        pattern |-> Pattern(tokens, "von_neumann"),
                        neighborhood |-> neighborhood]
    /\ ret = [raised |-> "none", pending |-> TRUE]

MatchCall ==
    /\ ret.pending
    /\ ret' = [raised |-> IF MatchRaises(args.pattern, args.neighborhood)
                          THEN IndexError ELSE "none",
               pending |-> FALSE,
               value |-> _cell_pattern_match(args.pattern, args.neighborhood)]
    /\ UNCHANGED <<CELL_STATE_REGISTRY, grid, history, args>>

NextMatch == MatchCall

SpecMatch == InitMatch /\ [][NextMatch]_vars

\* ------------------ cell_pattern_create on its own ------------------

\* The offsets used as keys of rule_parts: the Moore offsets and one offset
\* that belongs to neither shape.
KeyOffsets ==
    { <<0, 0>>, <<0, 1>>, <<1, 1>>, <<1, 0>>, <<1, -1>>,
      <<0, -1>>, <<-1, -1>>, <<-1, 0>>, <<-1, 1>>, <<2, 0>> }

\* The neighborhood types tried: the two known ones and an unknown one.
CreateTypes == {"moore", "von_neumann", "hexagonal"}

InitCreate ==
    /\ CELL_STATE_REGISTRY = EmptyDict
    /\ grid = << <<EMPTY_VALUE>> >>
    /\ history = [n \in StateIds |-> << >>]
    /\ \E keys \in SUBSET KeyOffsets :
         /\ Cardinality(keys) <= MaxParts
         /\ \E rule_parts \in [keys -> Names], neighborhood_type \in CreateTypes :
                args = [op |-> "cell_pattern_create", rule_parts |-> rule_parts,
                        neighborhood_type |-> neighborhood_type]
    /\ ret = [raised |-> "none", pending |-> TRUE]

CreateCall ==
    /\ ret.pending
    /\ ret' = [pending |-> FALSE] @@ cell_pattern_create(args.rule_parts, args.neighborhood_type)
    /\ UNCHANGED <<CELL_STATE_REGISTRY, grid, history, args>>

NextCreate == CreateCall

SpecCreate == InitCreate /\ [][NextCreate]_vars

\* ------------------ grid_step with the cells visited in another order ------------------

\* The registry after the setup calls: for each call, cell_pattern_create and
\* then cell_state_add_new_rule.
RECURSIVE Setup(_, _, _)
Setup(reg, calls, k) ==
    IF k > Len(calls) THEN reg
    ELSE Setup(RegistryAddRule(reg,
                   cell_pattern_create(calls[k].rule_parts, calls[k].neighborhood_type).value,
                   calls[k].resulting_new_state),
               calls, k + 1)

\* Both names registered as _test_cell_state_and_pattern_matching_functions does.
BothRegistered ==
    RegistryRegister(RegistryRegister(EmptyDict, "empty", [color |-> "black"]),
                     "sand", [color |-> "yellow"])

SandFalls == CHOOSE c \in RuleCalls :
    c.rule_parts = Dict2(<<0, 0>>, "sand", <<0, -1>>, "empty")
EmptyFills == CHOOSE c \in RuleCalls :
    c.rule_parts = Dict2(<<0, 0>>, "empty", <<0, 1>>, "sand")
SandAtRightBorder == CHOOSE c \in RuleCalls :
    c.rule_parts = Dict2(<<0, 0>>, "sand", <<1, 0>>, "border")

\* The registries the reordered step is tried with: the falling-sand rules,
\* and a registry whose rules overlap.
OrderRegistries ==
    { Setup(BothRegistered, <<SandFalls, EmptyFills>>, 1),
      Setup(BothRegistered, <<SandAtRightBorder, SandFalls, EmptyFills>>, 1) }

\* The permutations of 1..n.
Perms(n) == {f \in [1..n -> 1..n] : \A i, j \in 1..n : i # j => f[i] # f[j]}

\* The grids the reordered step is tried on: every shape of at most MaxCells
\* cells.
OrderGrids ==
    UNION {GridsOf(wh[1], wh[2], Names) :
               wh \in {d \in (1..MaxCells) \X (1..MaxCells) : d[1] * d[2] <= MaxCells}}

\* The orders in which the cells of g can be visited.
CellOrders(g) ==
    LET rm == RowMajor(g) IN {[k \in 1..Len(rm) |-> rm[f[k]]] : f \in Perms(Len(rm))}

InitOrder ==
    /\ CELL_STATE_REGISTRY \in OrderRegistries
    /\ grid \in OrderGrids
    /\ history = [n \in StateIds |->
                     IF n \in DOMAIN CELL_STATE_REGISTRY
                     THEN CELL_STATE_REGISTRY[n].rules ELSE << >>]
    /\ \E order \in CellOrders(grid) : args = [op |-> "grid_step", grid |-> grid, order |-> order]
    /\ ret = [raised |-> "none", pending |-> TRUE]

\* grid = grid_step(grid), and beside it the same loop body run over the cells
\* in the order args.order (ret.reordered holds the objects of that run).
OrderedStepCall ==
    /\ ret.pending
    /\ ret' = [pending |-> FALSE,
               reordered |-> GridStepIn(CELL_STATE_REGISTRY, grid, args.order)]
              @@ Outcome(GridStepRun(CELL_STATE_REGISTRY, grid))
    /\ grid' = CallerGrid(ret'.run)
    /\ UNCHANGED <<CELL_STATE_REGISTRY, history, args>>

NextOrder == OrderedStepCall

SpecOrder == InitOrder /\ [][NextOrder]_vars

\* ------------------ properties of grid_step ------------------

\* Every cell of g names a registered state.
AllRegistered(reg, g) ==
    \A r \in 1..Len(g) : \A c \in 1..Len(g[r]) : g[r][c] \in DOMAIN reg

\* The neighborhood the i-th rule of a rule list is matched against at the
\* cell (x, y) of g, and the set of rule indices that match there.
RuleNeighborhood(rules, i, g, x, y) ==
    NEIGHBORHOODS(rules[i][1].neighborhood_type, g, x, y)

MatchingRules(rules, g, x, y) ==
    {i \in 1..Len(rules) : _cell_pattern_match(rules[i][1], RuleNeighborhood(rules, i, g, x, y))}

SetMin(S) == CHOOSE i \in S : \A j \in S : i <= j

\* The last call was a grid_step that returned.
Stepped == args.op = "grid_step" /\ ret.raised = "none"

\* C1: grid_step mutates neither its argument nor the registry: when it is
\* called on a grid whose cells are all registered, it returns, the argument
\* object holds the cells it held before the call, the returned grid is
\* another object than the argument, and the registry is unchanged.
C1_StepLeavesInputAndRegistry ==
    [][ (args'.op = "grid_step" /\ AllRegistered(CELL_STATE_REGISTRY, grid)) =>
            /\ ret'.raised = "none"
            /\ ret'.run.objs[ret'.run.grid] = grid
            /\ ret'.run.new_grid # ret'.run.grid
            /\ CELL_STATE_REGISTRY' = CELL_STATE_REGISTRY ]_vars

\* A step returned a grid that differs from its argument, and the argument
\* object still holds the old cells.
C1_Witness ==
    /\ Stepped
    /\ grid # args.grid
    /\ ret.run.objs[ret.run.grid] = args.grid
    /\ ret.run.objs[ret.run.new_grid] = grid

\* C2: first match wins: for every cell whose state has a rule matching the
\* cell's neighborhood in the input grid, the output cell is the result of the
\* matching rule of smallest index in that state's rule list.
C2_FirstMatchWins ==
    Stepped =>
        \A y \in 0..(Len(args.grid) - 1), x \in 0..(Len(args.grid[1]) - 1) :
            LET rules == CELL_STATE_REGISTRY[args.grid[y + 1][x + 1]].rules
                m == MatchingRules(rules, args.grid, x, y)
            IN m # {} => grid[y + 1][x + 1] = rules[SetMin(m)][2]

\* A step in which some cell had two matching rules with different results and
\* took the result of the first.
C2_Witness ==
    /\ Stepped
    /\ \E y \in 0..(Len(args.grid) - 1), x \in 0..(Len(args.grid[1]) - 1) :
           LET rules == CELL_STATE_REGISTRY[args.grid[y + 1][x + 1]].rules
               m == MatchingRules(rules, args.grid, x, y)
           IN /\ \E i, j \in m : i < j /\ rules[i][2] # rules[j][2]
              /\ grid[y + 1][x + 1] = rules[SetMin(m)][2]

\* C3: identity transition: for every cell whose state has no rule matching
\* the cell's input neighborhood (an empty rule list included), the output
\* cell is the input cell's state.
C3_IdentityWhenNoMatch ==
    Stepped =>
        \A y \in 0..(Len(args.grid) - 1), x \in 0..(Len(args.grid[1]) - 1) :
            LET rules == CELL_STATE_REGISTRY[args.grid[y + 1][x + 1]].rules IN
            MatchingRules(rules, args.grid, x, y) = {} =>
                grid[y + 1][x + 1] = args.grid[y + 1][x + 1]

\* A step that kept a "sand" cell whose state has rules, none of which matched.
C3_Witness ==
    /\ Stepped
    /\ \E y \in 0..(Len(args.grid) - 1), x \in 0..(Len(args.grid[1]) - 1) :
           LET rules == CELL_STATE_REGISTRY[args.grid[y + 1][x + 1]].rules IN
           /\ args.grid[y + 1][x + 1] = "sand"
           /\ rules # << >>
           /\ MatchingRules(rules, args.grid, x, y) = {}
           /\ grid[y + 1][x + 1] = "sand"

\* C4: order independence: visiting the cells in any order gives the output
\* grid of the row-major loop, and each output cell is determined by the input
\* grid at that cell and the registry alone.
C4_OrderIndependent ==
    (args.op = "grid_step" /\ ~ret.pending) =>
        /\ ret.reordered.raised = ret.raised
        /\ ret.raised = "none" =>
            /\ ret.reordered.objs[ret.reordered.new_grid] = grid
            /\ \A y \in 0..(Len(args.grid) - 1), x \in 0..(Len(args.grid[1]) - 1) :
                   [raised |-> "none", value |-> grid[y + 1][x + 1]] =
                       RuleLoop(args.grid, x, y,
                                CELL_STATE_REGISTRY[args.grid[y + 1][x + 1]].rules, 1,
                                args.grid[y + 1][x + 1])

\* A step run in an order other than row-major on a grid that the step
\* changes, with the same output.
C4_Witness ==
    /\ args.op = "grid_step" /\ ~ret.pending /\ ret.raised = "none"
    /\ args.order # RowMajor(args.grid)
    /\ grid # args.grid
    /\ ret.reordered.objs[ret.reordered.new_grid] = grid

\* ------------------ properties of the neighborhood functions ------------------

\* The offset lists as the specification gives them, self first.
MooreShape ==
    << <<0, 0>>, <<0, 1>>, <<1, 1>>, <<1, 0>>, <<1, -1>>,
       <<0, -1>>, <<-1, -1>>, <<-1, 0>>, <<-1, 1>> >>
VonNeumannShape == << <<0, 0>>, <<0, 1>>, <<1, 0>>, <<0, -1>>, <<-1, 0>> >>
Shape(neighborhood_type) ==
    IF neighborhood_type = "moore" THEN MooreShape ELSE VonNeumannShape

\* The column and row an offset addresses from (x, y), and whether they lie
\* inside g.
TargetColumn(x, offset) == x + offset[1]
TargetRow(y, offset) == y - offset[2]
InsideGrid(g, col, row) == col >= 0 /\ col < Len(g[1]) /\ row >= 0 /\ row < Len(g)

\* The last call was a neighborhood function.
Extracted == args.op = "neighborhood"

\* C5: extractor and offset table agree: the extracted tuple has 9 (Moore) or
\* 5 (von Neumann) elements, element 0 is grid[y][x], and for every offset
\* (dx, dy) of the shape that stays inside the grid the element at the
\* offset's index is grid[y - dy][x + dx].
C5_ExtractorMatchesOffsets ==
    Extracted =>
        /\ ret.raised = "none"
        /\ Len(ret.value) = (IF args.neighborhood_type = "moore" THEN 9 ELSE 5)
        /\ ret.value[1] = grid[args.y + 1][args.x + 1]
        /\ \A i \in 1..Len(Shape(args.neighborhood_type)) :
               LET col == TargetColumn(args.x, Shape(args.neighborhood_type)[i])
                   row == TargetRow(args.y, Shape(args.neighborhood_type)[i])
               IN InsideGrid(grid, col, row) => ret.value[i] = grid[row + 1][col + 1]

\* The Moore neighborhood of the centre of the 3 x 3 grid "1" .. "9", as
\* _test_neighborhood_functions expects it.
C5_Witness ==
    /\ Extracted
    /\ args.neighborhood_type = "moore"
    /\ grid = << <<"1", "2", "3">>, <<"4", "5", "6">>, <<"7", "8", "9">> >>
    /\ args.x = 1 /\ args.y = 1
    /\ ret.value = <<"5", "2", "3", "6", "9", "8", "7", "4", "1">>

\* C6: border substitution: for both shapes, every offset that leaves the
\* grid yields BORDER_VALUE without any subscript being evaluated for it,
\* every subscript that is evaluated lies inside the grid (none is negative),
\* and the call does not raise.
C6_BorderSubstitution ==
    Extracted =>
        /\ ret.raised = "none"
        /\ \A i \in 1..Len(Shape(args.neighborhood_type)) :
               LET col == TargetColumn(args.x, Shape(args.neighborhood_type)[i])
                   row == TargetRow(args.y, Shape(args.neighborhood_type)[i])
               IN /\ ~InsideGrid(grid, col, row) =>
                         (ret.value[i] = BORDER_VALUE /\ ret.reads[i] = << >>)
                  /\ \A k \in 1..Len(ret.reads[i]) :
                         InsideGrid(grid, ret.reads[i][k][2], ret.reads[i][k][1])

\* A corner cell of a grid with more than one row and column: both shapes
\* return BORDER_VALUE for the offsets that leave the grid.
C6_Witness ==
    /\ Extracted
    /\ Len(grid) > 1 /\ Len(grid[1]) > 1
    /\ args.x = 0 /\ args.y = Len(grid) - 1
    /\ \/ /\ args.neighborhood_type = "moore"
          /\ \A i \in {5, 6, 7, 8, 9} : ret.value[i] = BORDER_VALUE
          /\ \A i \in {1, 2, 3, 4} : ret.value[i] # BORDER_VALUE
       \/ /\ args.neighborhood_type = "von_neumann"
          /\ \A i \in {4, 5} : ret.value[i] = BORDER_VALUE
          /\ \A i \in {1, 2, 3} : ret.value[i] # BORDER_VALUE

\* ------------------ properties of _cell_pattern_match ------------------

\* The last call was _cell_pattern_match and it has returned.
Matched == args.op = "_cell_pattern_match" /\ ~ret.pending

\* C7: for a pattern and a neighborhood of the same length,
\* _cell_pattern_match returns true exactly when every token of the
\* pattern is the wildcard or equals the neighborhood entry at its index (a
\* wildcard matches any entry, BORDER_VALUE included; a pattern of wildcards
\* matches every neighborhood of its length).
C7_MatchIffAllTokensAgree ==
    (Matched /\ Len(args.neighborhood) = Len(args.pattern.pattern)) =>
        /\ ret.raised = "none"
        /\ ret.value =
               (\A i \in 1..Len(args.pattern.pattern) :
                    \/ args.pattern.pattern[i] = WILDCARD
                    \/ args.pattern.pattern[i] = args.neighborhood[i])
        /\ (\A i \in 1..Len(args.pattern.pattern) : args.pattern.pattern[i] = WILDCARD)
               => ret.value = TRUE

\* A match of a five-token pattern in which a wildcard stands against
\* BORDER_VALUE and concrete tokens stand against equal entries.
C7_Witness ==
    /\ Matched
    /\ Len(args.pattern.pattern) = 5
    /\ Len(args.neighborhood) = 5
    /\ args.pattern.pattern[1] = "sand"
    /\ args.pattern.pattern[2] = WILDCARD /\ args.neighborhood[2] = BORDER_VALUE
    /\ args.pattern.pattern[4] = BORDER_VALUE /\ args.neighborhood[4] = BORDER_VALUE
    /\ ret.value = TRUE

\* ------------------ properties of cell_pattern_create ------------------

\* The last call was cell_pattern_create and it has ended.
Created == args.op = "cell_pattern_create" /\ ~ret.pending

\* C8: cell_pattern_create raises, returning no Pattern, whenever rule_parts
\* has no key (0, 0) and whenever the neighborhood type is not "moore" or
\* "von_neumann"; every Pattern it returns has one of the two types and, as
\* token 0, the state rule_parts maps (0, 0) to.
C8_CreateRejectsBadInput ==
    Created =>
        /\ (<<0, 0>> \notin DOMAIN args.rule_parts
               \/ args.neighborhood_type \notin {"moore", "von_neumann"})
               => (ret.raised = "ValueError" /\ "value" \notin DOMAIN ret)
        /\ ret.raised = "none" =>
               /\ ret.value.neighborhood_type \in {"moore", "von_neumann"}
               /\ <<0, 0>> \in DOMAIN args.rule_parts
               /\ ret.value.pattern[1] = args.rule_parts[<<0, 0>>]

\* Both failures happen: a call without (0, 0) on a known type, or a call with
\* (0, 0) on an unknown type, has raised.
C8_Witness ==
    /\ Created
    /\ ret.raised = "ValueError"
    /\ \/ (<<0, 0>> \notin DOMAIN args.rule_parts /\ args.neighborhood_type = "moore"
           /\ args.rule_parts # EmptyDict)
       \/ (<<0, 0>> \in DOMAIN args.rule_parts /\ args.neighborhood_type = "hexagonal")

\* C9: dense layout: for rule_parts with a key (0, 0) and a known type, the
\* Pattern returned has 9 (Moore) or 5 (von Neumann) tokens, the token at each
\* index is the state mapped to the shape's offset at that index or the
\* wildcard when the offset is no key, token 0 is the state mapped to (0, 0),
\* the type is the one requested, and keys outside the shape raise nothing.
C9_DenseLayout ==
    (Created /\ <<0, 0>> \in DOMAIN args.rule_parts
             /\ args.neighborhood_type \in {"moore", "von_neumann"}) =>
        /\ ret.raised = "none"
        /\ ret.value.neighborhood_type = args.neighborhood_type
        /\ Len(ret.value.pattern) = (IF args.neighborhood_type = "moore" THEN 9 ELSE 5)
        /\ ret.value.pattern[1] = args.rule_parts[<<0, 0>>]
        /\ \A i \in 1..Len(Shape(args.neighborhood_type)) :
               ret.value.pattern[i] =
                   IF Shape(args.neighborhood_type)[i] \in DOMAIN args.rule_parts
                   THEN args.rule_parts[Shape(args.neighborhood_type)[i]]
                   ELSE WILDCARD

\* A von Neumann pattern built from a map that also has the key (1, 1), which
\* is no von Neumann offset: the key is ignored, the other two tokens are set.
C9_Witness ==
    /\ Created
    /\ args.neighborhood_type = "von_neumann"
    /\ DOMAIN args.rule_parts = {<<0, 0>>, <<0, -1>>, <<1, 1>>}
    /\ ret.raised = "none"
    /\ ret.value.pattern =
           <<args.rule_parts[<<0, 0>>], WILDCARD, WILDCARD, args.rule_parts[<<0, -1>>], WILDCARD>>

\* ------------------ properties of the registry ------------------

\* C10: rule registration order: the rule list of every registered state is
\* the sequence of (pattern, result) pairs of the add-rule calls that returned
\* for that state since its last registration, in call order; and an add-rule
\* call that returns appends one rule to the list of the state named by token
\* 0 of its pattern and changes no other rule list and no metadata.
C10_RulesInCallOrder ==
    [][ /\ \A s \in DOMAIN CELL_STATE_REGISTRY' :
               CELL_STATE_REGISTRY'[s].rules = history'[s]
        /\ (args'.op = "cell_state_add_new_rule" /\ ret'.raised = "none") =>
               /\ DOMAIN CELL_STATE_REGISTRY' = DOMAIN CELL_STATE_REGISTRY
               /\ \A s \in DOMAIN CELL_STATE_REGISTRY :
                      /\ CELL_STATE_REGISTRY'[s].data = CELL_STATE_REGISTRY[s].data
                      /\ CELL_STATE_REGISTRY'[s].name = CELL_STATE_REGISTRY[s].name
                      /\ CELL_STATE_REGISTRY'[s].rules =
                             IF s = args'.matching_pattern.pattern[1]
                             THEN Append(CELL_STATE_REGISTRY[s].rules,
                                         <<args'.matching_pattern, args'.resulting_new_state>>)
                             ELSE CELL_STATE_REGISTRY[s].rules ]_vars

\* A state holds two different rules, in the order of the calls, while the
\* other state holds none.
C10_Witness ==
    /\ args.op = "cell_state_add_new_rule" /\ ret.raised = "none"
    /\ \E s \in DOMAIN CELL_STATE_REGISTRY :
           /\ Len(CELL_STATE_REGISTRY[s].rules) = 2
           /\ CELL_STATE_REGISTRY[s].rules[1] # CELL_STATE_REGISTRY[s].rules[2]
           /\ CELL_STATE_REGISTRY[s].rules[2] = <<args.matching_pattern, args.resulting_new_state>>
           /\ CELL_STATE_REGISTRY[s].rules = history[s]
           /\ \E t \in DOMAIN CELL_STATE_REGISTRY : t # s /\ CELL_STATE_REGISTRY[t].rules = << >>

\* C11: cell_state_add_new_rule raises KeyError when token 0 of the pattern
\* names a state that is not registered, and then the registry is exactly as
\* it was: no state is created and no rule list changes.
C11_AddRuleUnknownState ==
    [][ (args'.op = "cell_state_add_new_rule"
             /\ args'.matching_pattern.pattern[1] \notin DOMAIN CELL_STATE_REGISTRY) =>
            /\ ret'.raised = "KeyError"
            /\ CELL_STATE_REGISTRY' = CELL_STATE_REGISTRY ]_vars

\* An add-rule call for "rock" has raised while both names are registered and
\* one of them holds a rule; "rock" is still not registered.
C11_Witness ==
    /\ args.op = "cell_state_add_new_rule"
    /\ ret.raised = "KeyError"
    /\ args.matching_pattern.pattern[1] = "rock"
    /\ DOMAIN CELL_STATE_REGISTRY = {"empty", "sand"}
    /\ TotalRules(CELL_STATE_REGISTRY) > 0

\* C12: destructive re-registration: cell_state_register with a name that is
\* already registered replaces the state's metadata by the new metadata and
\* its rule list by the empty list, every other state keeps its metadata and
\* rules, and a grid_step after it keeps every cell of that name as it is.
C12_ReRegistrationDiscardsRules ==
    [][ (args'.op = "cell_state_register"
             /\ args'.name \in DOMAIN CELL_STATE_REGISTRY) =>
            /\ DOMAIN CELL_STATE_REGISTRY' = DOMAIN CELL_STATE_REGISTRY
            /\ CELL_STATE_REGISTRY'[args'.name] = Cell(args'.name, << >>, args'.kwargs)
            /\ \A s \in DOMAIN CELL_STATE_REGISTRY \ {args'.name} :
                   CELL_STATE_REGISTRY'[s] = CELL_STATE_REGISTRY[s]
            /\ AllRegistered(CELL_STATE_REGISTRY', grid) =>
                   \A r \in 1..Len(grid), c \in 1..Len(grid[1]) :
                       grid[r][c] = args'.name =>
                           GridStep(CELL_STATE_REGISTRY', grid)[r][c] = args'.name ]_vars

\* "sand" has just been registered with no rules although a rule of "sand"
\* had produced the "rock" cell in the grid, and "empty" still holds its rule.
C12_Witness ==
    /\ args.op = "cell_state_register" /\ args.name = "sand"
    /\ CELL_STATE_REGISTRY["sand"] = Cell("sand", << >>, [color |-> "black"])
    /\ \E r \in 1..Len(grid), c \in 1..Len(grid[1]) : grid[r][c] = "rock"
    /\ "empty" \in DOMAIN CELL_STATE_REGISTRY
    /\ CELL_STATE_REGISTRY["empty"].rules # << >>

\* C13: grid_step on a grid with a cell whose state is not registered raises
\* KeyError for the whole step: nothing is returned, the caller still holds
\* the input grid with the cells it had, and the registry is unchanged.
C13_StepUnknownStateAborts ==
    [][ (args'.op = "grid_step" /\ ~AllRegistered(CELL_STATE_REGISTRY, grid)) =>
            /\ ret'.raised = "KeyError"
            /\ grid' = grid
            /\ ret'.run.objs[ret'.run.grid] = grid
            /\ CELL_STATE_REGISTRY' = CELL_STATE_REGISTRY ]_vars

\* A step raised after it had already assigned a cell of new_grid (the first
\* cell is a registered "sand", a later cell is not registered): the caller's
\* grid is the input grid.
C13_Witness ==
    /\ args.op = "grid_step" /\ ret.raised = "KeyError"
    /\ args.grid[1][1] = "sand" /\ "sand" \in DOMAIN CELL_STATE_REGISTRY
    /\ ret.run.objs[ret.run.new_grid][1][1] = "sand"
    /\ grid = args.grid

\* ------------------ the falling-sand simulation ------------------

\* The registry after the setup of
\* _test_cell_state_and_pattern_matching_functions: both names registered and
\* the two falling-sand rules added.
SandRegistry == Setup(BothRegistered, <<SandFalls, EmptyFills>>, 1)

\* The w x h grid that is "empty" but for one "sand" at row r, column c
\* (0-based, rows top to bottom).
OneSandGrid(w, h, r, c) ==
    [i \in 1..h |-> [j \in 1..w |-> IF i = r + 1 /\ j = c + 1 THEN "sand" ELSE "empty"]]

\* The grids the simulation starts from: every grid of up to MaxSandDim rows
\* and columns holding a single "sand" (the example grid of _test_grid_step is
\* OneSandGrid(4, 4, 1, 1)), and every grid over "empty" and "sand" of up to
\* MaxSandH rows.
OneSandGrids ==
    {OneSandGrid(d[1], d[2], d[3], d[4]) :
         d \in {e \in (1..MaxSandDim) \X (1..MaxSandDim)
                       \X (0..(MaxSandDim - 1)) \X (0..(MaxSandDim - 1)) :
                    e[3] < e[2] /\ e[4] < e[1]}}

AnySandGrids == UNION {GridsOf(w, h, Names) : w \in Widths, h \in 1..MaxSandH}

SandGrids == OneSandGrids \cup AnySandGrids

InitSand ==
    /\ CELL_STATE_REGISTRY = SandRegistry
    /\ grid \in SandGrids
    /\ history = [n \in StateIds |->
                     IF n \in DOMAIN CELL_STATE_REGISTRY
                     THEN CELL_STATE_REGISTRY[n].rules ELSE << >>]
    /\ args = NoCall
    /\ ret = NoResult

\* The loop of _test_grid_step: example_grid = grid_step(example_grid).
NextSand == GridStepCall

SpecSand == InitSand /\ [][NextSand]_vars

\* ------------------ properties of the falling-sand simulation ------------------

\* The grids of _test_grid_step.
ExampleGrid == OneSandGrid(4, 4, 1, 1)
TEST_STEP_1_GRID == OneSandGrid(4, 4, 2, 1)
TEST_STEP_2_AND_3_GRID == OneSandGrid(4, 4, 3, 1)

\* C14: falling sand: from a grid that is "empty" but for one "sand" at row
\* r, column c, a grid_step moves the sand to row r + 1 of the same column
\* while r is not the bottom row and returns a grid equal to its input once
\* the sand is in the bottom row; on the 4 x 4 grid with the sand at row 1,
\* column 1, the sand is at row 2 after one step, at row 3 after two and still
\* at row 3 after three.
C14_SandFalls ==
    [][ args'.op = "grid_step" =>
            /\ \A r \in 0..(Len(grid) - 1), c \in 0..(Len(grid[1]) - 1) :
                   grid = OneSandGrid(Len(grid[1]), Len(grid), r, c) =>
                       /\ ret'.raised = "none"
                       /\ grid' = IF r < Len(grid) - 1
                                  THEN OneSandGrid(Len(grid[1]), Len(grid), r + 1, c)
                                  ELSE grid
            /\ grid_step(ExampleGrid) = TEST_STEP_1_GRID
            /\ grid_step(grid_step(ExampleGrid)) = TEST_STEP_2_AND_3_GRID
            /\ grid_step(grid_step(grid_step(ExampleGrid))) = TEST_STEP_2_AND_3_GRID ]_vars

\* The second step of _test_grid_step: the sand went from row 2 to row 3 of
\* the 4 x 4 grid.
C14_Witness ==
    /\ Stepped
    /\ CELL_STATE_REGISTRY = SandRegistry
    /\ args.grid = TEST_STEP_1_GRID
    /\ grid = TEST_STEP_2_AND_3_GRID

\* C15: output shape and totality: for a rectangular grid whose cells are all
\* registered, grid_step returns a grid with as many rows and as many columns
\* in every row as its input, and every cell of it was assigned: the result
\* of a rule matching at that cell when one matches, the state of the input
\* cell when none does; no cell is left with the EMPTY_VALUE it was allocated
\* with.
C15_ShapeAndTotality ==
    [][ (args'.op = "grid_step" /\ AllRegistered(CELL_STATE_REGISTRY, grid)) =>
            /\ ret'.raised = "none"
            /\ Len(grid') = Len(grid)
            /\ \A r \in 1..Len(grid) : Len(grid'[r]) = Len(grid[r])
            /\ \A r \in 1..Len(grid), c \in 1..Len(grid[1]) :
                   LET rules == CELL_STATE_REGISTRY[grid[r][c]].rules
                       matching == MatchingRules(rules, grid, c - 1, r - 1)
                   IN IF matching = {}
                      THEN grid'[r][c] = grid[r][c]
                      ELSE grid'[r][c] \in {rules[i][2] : i \in matching} ]_vars

\* A step of a two-row grid that changed a cell by a rule and left a "sand"
\* of the last row, which no rule matched, as "sand" and not as EMPTY_VALUE.
C15_Witness ==
    /\ Stepped
    /\ Len(args.grid) = 2
    /\ args.grid[2][1] = "sand"
    /\ grid[2][1] = "sand"
    /\ grid # args.grid
    /\ MatchingRules(CELL_STATE_REGISTRY["sand"].rules, args.grid, 0, 1) = {}

\* C16: rule ownership: in every registry reached by calls of
\* cell_state_register and cell_state_add_new_rule, every rule in the rule
\* list of a state s has a pattern whose token at index 0 is s; these lists
\* are the only rules grid_step evaluates for a cell in state s.
C16_RuleOwnership ==
    \A s \in DOMAIN CELL_STATE_REGISTRY :
        \A i \in 1..Len(CELL_STATE_REGISTRY[s].rules) :
            CELL_STATE_REGISTRY[s].rules[i][1].pattern[1] = s

\* A rule whose result is another state than its owner was just added, and
\* both registered states hold a rule.
C16_Witness ==
    /\ args.op = "cell_state_add_new_rule"
    /\ ret.raised = "none"
    /\ args.resulting_new_state # args.matching_pattern.pattern[1]
    /\ DOMAIN CELL_STATE_REGISTRY = {"empty", "sand"}
    /\ CELL_STATE_REGISTRY["sand"].rules # << >>
    /\ CELL_STATE_REGISTRY["empty"].rules # << >>

\* C17: sentinel separation: in every reachable registry, no registered state
\* id equals a sentinel: neither BORDER_VALUE, which the neighborhoods return
\* for lookups outside the grid, nor EMPTY_VALUE, which new_grid is filled
\* with, is a key of CELL_STATE_REGISTRY.  cell_state_register stores any
\* name, and the registration cell_state_register("empty", ...) of the
\* self-test makes EMPTY_VALUE a registered id.
C17_SentinelSeparation ==
    /\ BORDER_VALUE \notin DOMAIN CELL_STATE_REGISTRY
    /\ EMPTY_VALUE \notin DOMAIN CELL_STATE_REGISTRY

\* Whether the result state of every rule of reg is registered in reg.
ResultsRegistered(reg) ==
    \A s \in DOMAIN reg :
        \A i \in 1..Len(reg[s].rules) : reg[s].rules[i][2] \in DOMAIN reg

\* C18: closure under stepping: when every cell of the input grid is a
\* registered state and the result of every rule of the registry is a
\* registered state, grid_step returns, every cell of its output is a
\* registered state and the registry is as before, so the next grid_step on
\* the output does not raise KeyError either; and cell_state_add_new_rule
\* appends a rule of a registered state whether or not the result state is
\* registered.
C18_ClosedUnderStepping ==
    [][ /\ (/\ args'.op = "grid_step"
            /\ AllRegistered(CELL_STATE_REGISTRY, grid)
            /\ ResultsRegistered(CELL_STATE_REGISTRY)) =>
               /\ ret'.raised = "none"
               /\ CELL_STATE_REGISTRY' = CELL_STATE_REGISTRY
               /\ AllRegistered(CELL_STATE_REGISTRY', grid')
               /\ ResultsRegistered(CELL_STATE_REGISTRY')
               /\ ~GridStepRaises(CELL_STATE_REGISTRY', grid')
        /\ (/\ args'.op = "cell_state_add_new_rule"
            /\ args'.matching_pattern.pattern[1] \in DOMAIN CELL_STATE_REGISTRY) =>
               /\ ret'.raised = "none"
               /\ LET rules == CELL_STATE_REGISTRY'[args'.matching_pattern.pattern[1]].rules
                  IN /\ rules # << >>
                     /\ rules[Len(rules)][2] = args'.resulting_new_state ]_vars

\* A step with both states registered and rules that only result in
\* registered states changed the grid.
C18_Witness ==
    /\ Stepped
    /\ DOMAIN CELL_STATE_REGISTRY = {"empty", "sand"}
    /\ TotalRules(CELL_STATE_REGISTRY) > 0
    /\ ResultsRegistered(CELL_STATE_REGISTRY)
    /\ AllRegistered(CELL_STATE_REGISTRY, args.grid)
    /\ AllRegistered(CELL_STATE_REGISTRY, grid)
    /\ grid # args.grid

\* The number of "sand" cells in column c (1-based) of g.
SandInColumn(g, c) == Cardinality({r \in 1..Len(g) : g[r][c] = "sand"})

\* C19: sand conservation: with the two falling-sand rules of the self-test,
\* for every rectangular grid over "empty" and "sand", each column of the
\* grid a grid_step returns holds as many "sand" cells as the same column of
\* its input; holding for every step, it holds after any number of them.
C19_SandConserved ==
    [][ args'.op = "grid_step" =>
            /\ ret'.raised = "none"
            /\ Len(grid') = Len(grid)
            /\ \A c \in 1..Len(grid[1]) :
                   SandInColumn(grid', c) = SandInColumn(grid, c) ]_vars

\* A step of a column of two "sand" over one "empty": the lower "sand" fell,
\* the upper one stayed, and the column still holds two.
C19_Witness ==
    /\ Stepped
    /\ CELL_STATE_REGISTRY = SandRegistry
    /\ Len(args.grid) = 3
    /\ args.grid[1][1] = "sand" /\ args.grid[2][1] = "sand" /\ args.grid[3][1] = "empty"
    /\ grid[1][1] = "sand" /\ grid[2][1] = "empty" /\ grid[3][1] = "sand"
    /\ SandInColumn(grid, 1) = 2

\* ------------------ the simulation loop, run for ever ------------------

\* The caller keeps stepping: example_grid = grid_step(example_grid) is taken
\* again as long as it changes the state.
InitSandLoop ==
    /\ CELL_STATE_REGISTRY = SandRegistry
    /\ grid \in AnySandGrids
    /\ history = [n \in StateIds |->
                     IF n \in DOMAIN CELL_STATE_REGISTRY
                     THEN CELL_STATE_REGISTRY[n].rules ELSE << >>]
    /\ args = NoCall
    /\ ret = NoResult

SpecSandLoop == InitSandLoop /\ [][NextSand]_vars /\ WF_vars(GridStepCall)

\* No "sand" of g has an "empty" directly below it.
Settled(g) ==
    \A r \in 1..(Len(g) - 1), c \in 1..Len(g[1]) :
        ~(g[r][c] = "sand" /\ g[r + 1][c] = "empty")

\* C20: sand stabilisation: with the two falling-sand rules of the
\* self-test, from any rectangular grid over "empty" and "sand", repeated
\* grid_step eventually reaches a grid G with grid_step(G) = G and stays
\* there, and in G no "sand" has an "empty" directly below it.
C20_SandStabilises ==
    <>[](/\ ~GridStepRaises(CELL_STATE_REGISTRY, grid)
         /\ grid_step(grid) = grid
         /\ Settled(grid))

\* The step into a fixed point: the last "sand" of a column of three fell
\* into place, and a further step returns the same grid.
C20_Witness ==
    /\ Stepped
    /\ CELL_STATE_REGISTRY = SandRegistry
    /\ Len(args.grid) = 3
    /\ args.grid[1][1] = "sand" /\ args.grid[2][1] = "empty" /\ args.grid[3][1] = "sand"
    /\ grid[1][1] = "empty" /\ grid[2][1] = "sand" /\ grid[3][1] = "sand"
    /\ ~Settled(args.grid)
    /\ Settled(grid)
    /\ grid_step(grid) = grid

====
